---- MODULE Spec2Model ----
(***************************************************************************)
(* Model of backend/routes/documents.js: the upload handler (POST /), the  *)
(* background pipeline processDocumentWithAI and the delete handler        *)
(* (DELETE /:id), over the Document, Transaction and Anomaly collections   *)
(* and the Cloudinary blob store.                                          *)
(*                                                                         *)
(* Every `await` of the source is a suspension point: the state before it  *)
(* is one value of the handler's program counter, and the call's outcome   *)
(* (resolve / reject) is one action each.  The code that runs between two  *)
(* awaits is synchronous in Node and is modelled as part of the action     *)
(* that resumes the handler.  A call that never returns is the handler     *)
(* staying at that program counter forever (no fairness in Spec).          *)
(*                                                                         *)
(* Risk scores are modelled in hundredths (0.7 is 70).                     *)
(***************************************************************************)
EXTENDS Integers, Sequences, FiniteSets

\* ---------------------------------------------------------------- bounds
\* Number of submissions (each creates at most one Document, whose id it is).
MaxDocs == 1

Docs == 1..MaxDocs
Users == {1, 2}
\* The account whose uploads are followed.  User 2 owns Transactions of its
\* own and sends DELETE requests for the Documents of user 1.
Uploaders == {1}

\* ------------------------------------------------------ program constants
HistoryLimit == 100
HighThreshold == 70
MediumThreshold == 40

\* Risk scores the scorer may return (hundredths): both thresholds and a
\* score above them.
RiskScores == {MediumThreshold, HighThreshold, 85}

\* Numbers of Transactions of user 1 created outside the pipeline before the
\* runs: none, or as many as the history limit.
PreCounts == {0, HistoryLimit}

VARIABLES
    geminiKey,      \* process.env.GEMINI_API_KEY is set
    hpc,            \* POST / handler position, per submission
    resp,           \* POST / response, per submission
    mem,            \* the in-memory Document object of the submission
    docs,           \* Document collection (persisted), by document id
    blobs,          \* Cloudinary store: ids of the blobs it holds
    ppc,            \* processDocumentWithAI position, per document
    provider,       \* aiProvider chosen by the run
    extractCalls,   \* number of processDocument calls made by the run
    failedAt,       \* the stage whose await rejected, per run
    manual,         \* Transactions created outside the pipeline: count per user
    transactions,   \* Transactions created by the pipeline, in insertion order
                    \* (in the collection they follow the manual ones)
    docAtTxSave,    \* persisted Document status when the run's Transaction was saved
    window,         \* userTransactions passed to detectAnomalies
    verdict,        \* what detectAnomalies returned to the run
    anomalies,      \* Anomaly collection
    dpc,            \* DELETE /:id handler position, per document
    destroyErr,     \* the cloudinary destroy call of the delete threw
    dresp           \* DELETE /:id response code, per document

vars == <<geminiKey, hpc, resp, mem, docs, blobs, ppc, provider, extractCalls,
          failedAt, manual, transactions, docAtTxSave, window, verdict, anomalies,
          dpc, destroyErr, dresp>>

\* ------------------------------------------------------------ data shapes
NoDoc == [user |-> 0, status |-> "none", extracted |-> FALSE, error |-> FALSE]
NoWindow == [manual |-> [v \in Users |-> 0], created |-> <<>>]
NoResp == [code |-> 0, status |-> "none"]
NullResult == [isAnomaly |-> FALSE, riskScore |-> -1, null |-> TRUE]
NoResult == [isAnomaly |-> FALSE, riskScore |-> -2, null |-> TRUE]

ScorerResults ==
    {NullResult} \cup
    {[isAnomaly |-> a, riskScore |-> r, null |-> FALSE] : a \in BOOLEAN, r \in RiskScores}

\* _id of the Transaction built by the run of document d.
TxId(d) == d

\* Transactions created by hand before the runs (document: null), as a count
\* per user: n of user 1 and, when there are any, one of user 2.
ManualTransactions(n) ==
    [u \in Users |-> IF u = 1 THEN n ELSE IF n > 0 THEN 1 ELSE 0]

AwaitStages == {"extract", "saveDoc", "saveTx", "find", "score", "saveAnom"}

\* ------------------------------------------------------------ pure helpers
\* the precedence of the two providers exchanged
SelectProviderInverted(key) == IF key THEN "openai" ELSE "gemini"

\* line 215
SelectProvider(key) == IF key THEN "gemini" ELSE "openai"

\* the thresholds taken inclusively (>= for >)
SeverityInclusive(riskScore) ==
    IF riskScore >= HighThreshold THEN "high"
    ELSE IF riskScore >= MediumThreshold THEN "medium"
    ELSE "low"

\* line 265
Severity(riskScore) ==
    IF riskScore > HighThreshold THEN "high"
    ELSE IF riskScore > MediumThreshold THEN "medium"
    ELSE "low"

\* the verdict read off the score instead of isAnomaly
ShouldRaiseByScore(result) == ~result.null /\ result.riskScore > HighThreshold

\* any result at all raises an Anomaly
ShouldRaiseAnyResult(result) == ~result.null

\* line 259
ShouldRaise(result) == ~result.null /\ result.isAnomaly

FilterUser(seq, u) == SelectSeq(seq, LAMBDA t : t.user = u)

Limit(seq, n) == IF Len(seq) <= n THEN seq ELSE SubSeq(seq, 1, n)

Min(a, b) == IF a <= b THEN a ELSE b

\* the query without its user filter: the first 100 of the whole collection
FindHistoryAllUsers(man, txs, u) ==
    [manual |-> [v \in Users |->
                   IF v = u THEN Min(man[v], HistoryLimit - Min(man[3 - v], HistoryLimit))
                   ELSE Min(man[v], HistoryLimit)],
     created |-> Limit(txs, HistoryLimit - Min(man[1] + man[2], HistoryLimit))]

\* line 254: Transaction.find({ user: userId }).limit(100), no sort: the first
\* 100 of the user in natural (insertion) order, the manual ones coming first.
\* The result is the number of manual Transactions it holds, per owner, and
\* the pipeline-created ones it holds.
FindHistory(man, txs, u) ==
    [manual |-> [v \in Users |-> IF v = u THEN Min(man[u], HistoryLimit) ELSE 0],
     created |-> Limit(FilterUser(txs, u), HistoryLimit - Min(man[u], HistoryLimit))]

RECURSIVE SumOver(_, _)
SumOver(f, S) ==
    IF S = {} THEN 0
    ELSE LET v == CHOOSE x \in S : TRUE IN f[v] + SumOver(f, S \ {v})

WindowSize(w) == SumOver(w.manual, Users) + Len(w.created)

TxOf(d) == {i \in 1..Len(transactions) : transactions[i].document = d}
AnomOf(d) == {a \in anomalies : a.transaction = TxId(d)}

\* ------------------------------------------------------------------- Init
Init ==
    /\ geminiKey \in BOOLEAN
    /\ hpc = [d \in Docs |-> "idle"]
    /\ resp = [d \in Docs |-> NoResp]
    /\ mem = [d \in Docs |-> NoDoc]
    /\ docs = [d \in Docs |-> NoDoc]
    /\ blobs = {}
    /\ ppc = [d \in Docs |-> "idle"]
    /\ provider = [d \in Docs |-> "none"]
    /\ extractCalls = [d \in Docs |-> 0]
    /\ failedAt = [d \in Docs |-> "none"]
    /\ manual \in {ManualTransactions(n) : n \in PreCounts}
    /\ transactions = <<>>
    /\ docAtTxSave = [d \in Docs |-> "none"]
    /\ window = [d \in Docs |-> NoWindow]
    /\ verdict = [d \in Docs |-> NoResult]
    /\ anomalies = {}
    /\ dpc = [d \in Docs |-> "idle"]
    /\ destroyErr = [d \in Docs |-> FALSE]
    /\ dresp = [d \in Docs |-> 0]

\* ------------------------------------------------------------ POST / (167-209)
hvars == <<hpc, resp, mem>>
pvars == <<ppc, provider, extractCalls, failedAt, docAtTxSave, window, verdict>>
dvars == <<dpc, destroyErr, dresp>>

\* lines 169-174: no file in the request
PostNoFile(d) ==
    /\ hpc[d] = "idle"
    /\ hpc' = [hpc EXCEPT ![d] = "done"]
    /\ resp' = [resp EXCEPT ![d] = [code |-> 400, status |-> "none"]]
    /\ UNCHANGED <<geminiKey, manual, mem, docs, blobs, transactions, anomalies>>
    /\ UNCHANGED pvars /\ UNCHANGED dvars

\* line 177: uploadToCloudinary(req.file.buffer) is called and awaited
PostBegin(d, u) ==
    /\ hpc[d] = "idle"
    /\ hpc' = [hpc EXCEPT ![d] = "uploading"]
    /\ mem' = [mem EXCEPT ![d] = [NoDoc EXCEPT !.user = u]]
    /\ UNCHANGED <<geminiKey, manual, resp, docs, blobs, transactions, anomalies>>
    /\ UNCHANGED pvars /\ UNCHANGED dvars

\* the run started before the Document is saved
PostUploadOkStartsRun(d) ==
    /\ hpc[d] = "uploading"
    /\ blobs' = blobs \cup {d}
    /\ mem' = [mem EXCEPT ![d].status = "processing"]
    /\ hpc' = [hpc EXCEPT ![d] = "saving"]
    /\ provider' = [provider EXCEPT ![d] = IF geminiKey THEN "gemini" ELSE "openai"]
    /\ extractCalls' = [extractCalls EXCEPT ![d] = @ + 1]
    /\ ppc' = [ppc EXCEPT ![d] = "extract"]
    /\ UNCHANGED <<geminiKey, manual, resp, docs, transactions, anomalies,
                   failedAt, docAtTxSave, window, verdict, dpc, destroyErr, dresp>>

\* lines 177-190: the upload resolved; new Document(...); document.save() awaited
PostUploadOk(d) ==
    /\ hpc[d] = "uploading"
    /\ blobs' = blobs \cup {d}
    /\ mem' = [mem EXCEPT ![d].status = "processing"]
    /\ hpc' = [hpc EXCEPT ![d] = "saving"]
    /\ UNCHANGED <<geminiKey, manual, resp, docs, transactions, anomalies>>
    /\ UNCHANGED pvars /\ UNCHANGED dvars

\* lines 202-208: the catch of the handler, reached from the awaits of 177 and 190
PostFail(d) ==
    /\ hpc[d] \in {"uploading", "saving"}
    /\ hpc' = [hpc EXCEPT ![d] = "done"]
    /\ resp' = [resp EXCEPT ![d] = [code |-> 500, status |-> "none"]]
    /\ UNCHANGED <<geminiKey, manual, mem, docs, blobs, transactions, anomalies>>
    /\ UNCHANGED pvars /\ UNCHANGED dvars

\* line 190: document.save() wrote the record; the handler resumes next
PostSaveOk(d) ==
    /\ hpc[d] = "saving"
    /\ docs' = [docs EXCEPT ![d] = mem[d]]
    /\ hpc' = [hpc EXCEPT ![d] = "saved"]
    /\ UNCHANGED <<geminiKey, manual, resp, mem, blobs, transactions, anomalies>>
    /\ UNCHANGED pvars /\ UNCHANGED dvars

\* the handler awaits the run before it responds
PostRespondAwaiting(d) ==
    /\ \/ /\ hpc[d] = "saved"
          /\ ppc[d] = "idle"
          /\ provider' = [provider EXCEPT ![d] = IF geminiKey THEN "gemini" ELSE "openai"]
          /\ extractCalls' = [extractCalls EXCEPT ![d] = @ + 1]
          /\ ppc' = [ppc EXCEPT ![d] = "extract"]
          /\ hpc' = [hpc EXCEPT ![d] = "awaitRun"]
          /\ UNCHANGED resp
       \/ /\ hpc[d] = "awaitRun"
          /\ ppc[d] \in {"done", "failed"}
          /\ resp' = [resp EXCEPT ![d] = [code |-> 201, status |-> mem[d].status]]
          /\ hpc' = [hpc EXCEPT ![d] = "done"]
          /\ UNCHANGED <<provider, extractCalls, ppc>>
    /\ UNCHANGED <<geminiKey, manual, mem, docs, blobs, transactions, anomalies,
                   failedAt, docAtTxSave, window, verdict, dpc, destroyErr, dresp>>

\* lines 193-201: processDocumentWithAI(...) runs to its first await (218) and
\* returns its promise, which is not awaited; then the 201 response is sent
PostRespond(d) ==
    /\ hpc[d] = "saved"
    /\ ppc[d] = "idle"
    /\ provider' = [provider EXCEPT ![d] = SelectProvider(geminiKey)]
    /\ extractCalls' = [extractCalls EXCEPT ![d] = @ + 1]
    /\ ppc' = [ppc EXCEPT ![d] = "extract"]
    /\ resp' = [resp EXCEPT ![d] = [code |-> 201, status |-> mem[d].status]]
    /\ hpc' = [hpc EXCEPT ![d] = "done"]
    /\ UNCHANGED <<geminiKey, manual, mem, docs, blobs, transactions, anomalies,
                   failedAt, docAtTxSave, window, verdict>>
    /\ UNCHANGED dvars


\* ------------------------------------- processDocumentWithAI (212-285)
\* a failed history query is swallowed and the run goes on to the scorer
CatchTargetContinue(d, stage) == IF stage = "find" THEN "score" ELSE "saveFail"

\* lines 279-283: the catch block up to its await of document.save()
CatchTarget(d, stage) == "saveFail"

EnterCatch(d) ==
    /\ failedAt' = [failedAt EXCEPT ![d] = ppc[d]]
    /\ mem' = [mem EXCEPT ![d].status = "failed", ![d].error = TRUE]
    /\ ppc' = [ppc EXCEPT ![d] = CatchTarget(d, ppc[d])]

\* an awaited call of the try block (218, 236, 251, 254, 257, 275) rejects
StageFail(d) ==
    /\ ppc[d] \in AwaitStages
    /\ EnterCatch(d)
    /\ UNCHANGED <<geminiKey, manual, hpc, resp, docs, blobs, transactions, anomalies,
                   provider, extractCalls, docAtTxSave, window, verdict>>
    /\ UNCHANGED dvars

\* the Transaction is saved without the Document having been saved first
ExtractOkSkipDocSave(d) ==
    /\ ppc[d] = "extract"
    /\ mem' = [mem EXCEPT ![d].extracted = TRUE, ![d].status = "processed"]
    /\ ppc' = [ppc EXCEPT ![d] = "saveTx"]
    /\ UNCHANGED <<geminiKey, manual, hpc, resp, docs, blobs, transactions, anomalies,
                   provider, extractCalls, failedAt, docAtTxSave, window, verdict>>
    /\ UNCHANGED dvars

\* lines 218-236: processDocument resolved; fields copied; document.save() awaited
ExtractOk(d) ==
    /\ ppc[d] = "extract"
    /\ mem' = [mem EXCEPT ![d].extracted = TRUE, ![d].status = "processed"]
    /\ ppc' = [ppc EXCEPT ![d] = "saveDoc"]
    /\ UNCHANGED <<geminiKey, manual, hpc, resp, docs, blobs, transactions, anomalies,
                   provider, extractCalls, failedAt, docAtTxSave, window, verdict>>
    /\ UNCHANGED dvars

\* lines 236-251: the save wrote the record (it rejects when the record is gone);
\* new Transaction(...); transaction.save() awaited
SaveDocOk(d) ==
    /\ ppc[d] = "saveDoc"
    /\ docs[d].status # "none"
    /\ docs' = [docs EXCEPT ![d] = mem[d]]
    /\ ppc' = [ppc EXCEPT ![d] = "saveTx"]
    /\ UNCHANGED <<geminiKey, manual, hpc, resp, mem, blobs, transactions, anomalies,
                   provider, extractCalls, failedAt, docAtTxSave, window, verdict>>
    /\ UNCHANGED dvars

\* lines 251-254: the Transaction is inserted; Transaction.find(...) awaited
SaveTxOk(d) ==
    /\ ppc[d] = "saveTx"
    /\ transactions' = Append(transactions,
                              [id |-> TxId(d), user |-> mem[d].user, document |-> d])
    /\ docAtTxSave' = [docAtTxSave EXCEPT ![d] = docs[d].status]
    /\ ppc' = [ppc EXCEPT ![d] = "find"]
    /\ UNCHANGED <<geminiKey, manual, hpc, resp, mem, docs, blobs, anomalies,
                   provider, extractCalls, failedAt, window, verdict>>
    /\ UNCHANGED dvars

\* the query leaves the candidate Transaction out of its result
FindOkExcludingSelf(d) ==
    /\ ppc[d] = "find"
    /\ window' = [window EXCEPT ![d] =
          [manual |-> FindHistory(manual, transactions, mem[d].user).manual,
           created |-> SelectSeq(FindHistory(manual, transactions, mem[d].user).created,
                                 LAMBDA t : t.id # TxId(d))]]
    /\ ppc' = [ppc EXCEPT ![d] = "score"]
    /\ UNCHANGED <<geminiKey, manual, hpc, resp, mem, docs, blobs, transactions, anomalies,
                   provider, extractCalls, failedAt, docAtTxSave, verdict>>
    /\ UNCHANGED dvars

\* lines 254-257: the history query resolved; detectAnomalies(...) awaited
FindOk(d) ==
    /\ ppc[d] = "find"
    /\ window' = [window EXCEPT ![d] = FindHistory(manual, transactions, mem[d].user)]
    /\ ppc' = [ppc EXCEPT ![d] = "score"]
    /\ UNCHANGED <<geminiKey, manual, hpc, resp, mem, docs, blobs, transactions, anomalies,
                   provider, extractCalls, failedAt, docAtTxSave, verdict>>
    /\ UNCHANGED dvars

\* lines 257-278: the scorer resolved with r; on a positive verdict the Anomaly is
\* built and anomaly.save() awaited, otherwise the run ends
ScoreOk(d, r) ==
    /\ ppc[d] = "score"
    /\ verdict' = [verdict EXCEPT ![d] = r]
    /\ ppc' = [ppc EXCEPT ![d] = IF ShouldRaise(r) THEN "saveAnom" ELSE "done"]
    /\ UNCHANGED <<geminiKey, manual, hpc, resp, mem, docs, blobs, transactions, anomalies,
                   provider, extractCalls, failedAt, docAtTxSave, window>>
    /\ UNCHANGED dvars

\* the Anomaly is inserted and the try block goes on with a call that may fail
SaveAnomOkNotLast(d) ==
    /\ ppc[d] = "saveAnom"
    /\ anomalies' = anomalies \cup
          {[transaction |-> TxId(d), user |-> mem[d].user,
            severity |-> Severity(verdict[d].riskScore),
            riskScore |-> verdict[d].riskScore, provider |-> provider[d]]}
    /\ ppc' = [ppc EXCEPT ![d] = "score"]
    /\ UNCHANGED <<geminiKey, manual, hpc, resp, mem, docs, blobs, transactions,
                   provider, extractCalls, failedAt, docAtTxSave, window, verdict>>
    /\ UNCHANGED dvars

\* lines 261-278: the Anomaly is inserted; the run ends
SaveAnomOk(d) ==
    /\ ppc[d] = "saveAnom"
    /\ anomalies' = anomalies \cup
          {[transaction |-> TxId(d), user |-> mem[d].user,
            severity |-> Severity(verdict[d].riskScore),
            riskScore |-> verdict[d].riskScore, provider |-> provider[d]]}
    /\ ppc' = [ppc EXCEPT ![d] = "done"]
    /\ UNCHANGED <<geminiKey, manual, hpc, resp, mem, docs, blobs, transactions,
                   provider, extractCalls, failedAt, docAtTxSave, window, verdict>>
    /\ UNCHANGED dvars

\* line 283: the save of the catch block wrote the record; the run returns
CatchSaveOk(d) ==
    /\ ppc[d] = "saveFail"
    /\ docs[d].status # "none"
    /\ docs' = [docs EXCEPT ![d] = mem[d]]
    /\ ppc' = [ppc EXCEPT ![d] = "failed"]
    /\ UNCHANGED <<geminiKey, manual, hpc, resp, mem, blobs, transactions, anomalies,
                   provider, extractCalls, failedAt, docAtTxSave, window, verdict>>
    /\ UNCHANGED dvars

\* line 283: the save of the catch block rejected; the promise of the run rejects
\* (line 193 logs it)
CatchSaveFail(d) ==
    /\ ppc[d] = "saveFail"
    /\ ppc' = [ppc EXCEPT ![d] = "rejected"]
    /\ UNCHANGED <<geminiKey, manual, hpc, resp, mem, docs, blobs, transactions, anomalies,
                   provider, extractCalls, failedAt, docAtTxSave, window, verdict>>
    /\ UNCHANGED dvars

\* --------------------------------------------------- DELETE /:id (288-327)
\* lines 290-300: findOne({_id, user}) found nothing
DeleteNotFound(d, u) ==
    /\ dpc[d] = "idle"
    /\ docs[d].status = "none" \/ docs[d].user # u
    /\ dpc' = [dpc EXCEPT ![d] = "done"]
    /\ dresp' = [dresp EXCEPT ![d] = 404]
    /\ UNCHANGED <<geminiKey, manual, docs, blobs, transactions, anomalies, destroyErr>>
    /\ UNCHANGED hvars /\ UNCHANGED pvars

\* lines 290-308: the record of the caller was found; cloudinary destroy awaited
DeleteBegin(d, u) ==
    /\ dpc[d] = "idle"
    /\ docs[d].status # "none" /\ docs[d].user = u
    /\ dpc' = [dpc EXCEPT ![d] = "destroy"]
    /\ UNCHANGED <<geminiKey, manual, docs, blobs, transactions, anomalies, destroyErr, dresp>>
    /\ UNCHANGED hvars /\ UNCHANGED pvars

\* lines 308-315: the blob was destroyed; document.deleteOne() awaited
DestroyOk(d) ==
    /\ dpc[d] = "destroy"
    /\ blobs' = blobs \ {d}
    /\ dpc' = [dpc EXCEPT ![d] = "deleteOne"]
    /\ UNCHANGED <<geminiKey, manual, docs, transactions, anomalies, destroyErr, dresp>>
    /\ UNCHANGED hvars /\ UNCHANGED pvars

\* destroy threw and the error reaches the catch of the handler: 500
DestroyFailAborts(d) ==
    /\ dpc[d] = "destroy"
    /\ destroyErr' = [destroyErr EXCEPT ![d] = TRUE]
    /\ dpc' = [dpc EXCEPT ![d] = "done"]
    /\ dresp' = [dresp EXCEPT ![d] = 500]
    /\ UNCHANGED <<geminiKey, manual, docs, blobs, transactions, anomalies>>
    /\ UNCHANGED hvars /\ UNCHANGED pvars

\* lines 309-315: destroy threw; logged; document.deleteOne() awaited
DestroyFail(d) ==
    /\ dpc[d] = "destroy"
    /\ destroyErr' = [destroyErr EXCEPT ![d] = TRUE]
    /\ dpc' = [dpc EXCEPT ![d] = "deleteOne"]
    /\ UNCHANGED <<geminiKey, manual, docs, blobs, transactions, anomalies, dresp>>
    /\ UNCHANGED hvars /\ UNCHANGED pvars

\* the delete cascades to the Transactions and Anomalies of the Document
DeleteOneOkCascade(d) ==
    /\ dpc[d] = "deleteOne"
    /\ docs' = [docs EXCEPT ![d] = NoDoc]
    /\ transactions' = SelectSeq(transactions, LAMBDA t : t.document # d)
    /\ anomalies' = {a \in anomalies : a.transaction # TxId(d)}
    /\ dpc' = [dpc EXCEPT ![d] = "done"]
    /\ dresp' = [dresp EXCEPT ![d] = 200]
    /\ UNCHANGED <<geminiKey, manual, blobs, destroyErr>>
    /\ UNCHANGED hvars /\ UNCHANGED pvars

\* lines 315-320: the record is removed; 200
DeleteOneOk(d) ==
    /\ dpc[d] = "deleteOne"
    /\ docs' = [docs EXCEPT ![d] = NoDoc]
    /\ dpc' = [dpc EXCEPT ![d] = "done"]
    /\ dresp' = [dresp EXCEPT ![d] = 200]
    /\ UNCHANGED <<geminiKey, manual, blobs, transactions, anomalies, destroyErr>>
    /\ UNCHANGED hvars /\ UNCHANGED pvars

\* lines 321-326: deleteOne rejected; 500
DeleteOneFail(d) ==
    /\ dpc[d] = "deleteOne"
    /\ dpc' = [dpc EXCEPT ![d] = "done"]
    /\ dresp' = [dresp EXCEPT ![d] = 500]
    /\ UNCHANGED <<geminiKey, manual, docs, blobs, transactions, anomalies, destroyErr>>
    /\ UNCHANGED hvars /\ UNCHANGED pvars

\* ------------------------------------------------------------ specification
Next ==
    \/ \E d \in Docs : PostNoFile(d)
    \/ \E d \in Docs, u \in Uploaders : PostBegin(d, u)
    \/ \E d \in Docs : PostUploadOk(d)
    \/ \E d \in Docs : PostFail(d)
    \/ \E d \in Docs : PostSaveOk(d)
    \/ \E d \in Docs : PostRespond(d)
    \/ \E d \in Docs : StageFail(d)
    \/ \E d \in Docs : ExtractOk(d)
    \/ \E d \in Docs : SaveDocOk(d)
    \/ \E d \in Docs : SaveTxOk(d)
    \/ \E d \in Docs : FindOk(d)
    \/ \E d \in Docs, r \in ScorerResults : ScoreOk(d, r)
    \/ \E d \in Docs : SaveAnomOk(d)
    \/ \E d \in Docs : CatchSaveOk(d)
    \/ \E d \in Docs : CatchSaveFail(d)
    \/ \E d \in Docs, u \in Users : DeleteNotFound(d, u)
    \/ \E d \in Docs, u \in Users : DeleteBegin(d, u)
    \/ \E d \in Docs : DestroyOk(d)
    \/ \E d \in Docs : DestroyFail(d)
    \/ \E d \in Docs : DeleteOneOk(d)
    \/ \E d \in Docs : DeleteOneFail(d)

Spec == Init /\ [][Next]_vars

\* The POST handler resumes once its awaited call has settled (Node runs the
\* continuation); nothing is assumed of the run's collaborators.
RespSpec == Spec /\ \A d \in Docs : WF_vars(PostRespond(d))

\* One step of a run: the call it awaits settles, one way or the other.
RunStep(d) ==
    \/ StageFail(d)
    \/ ExtractOk(d)
    \/ SaveDocOk(d)
    \/ SaveTxOk(d)
    \/ FindOk(d)
    \/ \E r \in ScorerResults : ScoreOk(d, r)
    \/ SaveAnomOk(d)
    \/ CatchSaveOk(d)
    \/ CatchSaveFail(d)

\* Every call a run awaits eventually returns, with a result or an error.
LiveSpec == Spec /\ \A d \in Docs : WF_vars(RunStep(d))

\* ------------------------------------------------------------------ claims
Terminated(d) == ppc[d] \in {"done", "failed", "rejected"}
TxSaved(d) == ppc[d] \in {"find", "score", "saveAnom", "done"}
                 \/ failedAt[d] \in {"find", "score", "saveAnom"}

\* C1: every run in which a stage failed and whose catch block completed leaves
\* the Document (when it was not deleted) with status failed and an error, and
\* no Transaction linked to the Document exists.
C1_FailedRunLeavesNoTransaction ==
    \A d \in Docs :
        ppc[d] = "failed" /\ docs[d].status # "none" =>
            /\ docs[d].status = "failed"
            /\ docs[d].error
            /\ TxOf(d) = {}

\* C2: a persisted Document whose status is processed or failed keeps that
\* status for as long as the record exists.
C2_TerminalStatusIsFinal ==
    [][\A d \in Docs :
          docs[d].status \in {"processed", "failed"} /\ docs'[d].status # "none"
              => docs'[d].status = docs[d].status]_vars

\* C3: in every state a persisted Document with status processed has its
\* extracted fields and a persisted Transaction linked to it.
C3_ProcessedHasTransaction ==
    \A d \in Docs :
        docs[d].status = "processed" => docs[d].extracted /\ TxOf(d) # {}

\* C4 (as stated): every terminated run whose extraction succeeded has created
\* exactly one Transaction linked to the Document.
C4_ExtractedMeansOneTransaction ==
    \A d \in Docs :
        Terminated(d) /\ mem[d].extracted => Cardinality(TxOf(d)) = 1

\* C4 (amended): a run creates at most one Transaction linked to the Document,
\* exactly one once its transaction save has succeeded, and none unless the
\* extraction succeeded; when the Transaction was persisted the Document's
\* status processed had been saved (the record read processed, or a DELETE had
\* removed it since).
C4_OneTransactionAfterProcessed ==
    \A d \in Docs :
        /\ Cardinality(TxOf(d)) <= 1
        /\ TxSaved(d) => Cardinality(TxOf(d)) = 1
        /\ TxOf(d) # {} =>
              /\ mem[d].extracted
              /\ \/ docAtTxSave[d] = "processed"
                 \/ docAtTxSave[d] = "none" /\ dpc[d] = "done" /\ dresp[d] = 200

C4_Witness ==
    \E d \in Docs :
        ppc[d] = "done" /\ Cardinality(TxOf(d)) = 1 /\ docAtTxSave[d] = "processed"

\* C5: no run of processDocumentWithAI rejects to its caller.
C5_RunNeverRejects == \A d \in Docs : ppc[d] # "rejected"

\* C6: once the Document is saved the upload responds 201 with the Document in
\* status processing, whatever the run does or fails to do afterwards, and a
\* response once sent is never changed.
C6_ResponseDoesNotWait ==
    /\ [](\A d \in Docs : resp[d].code = 201 => resp[d].status = "processing")
    /\ [][\A d \in Docs : resp[d].code # 0 => resp'[d] = resp[d]]_vars
    /\ \A d \in Docs : (hpc[d] = "saved") ~> (resp[d].code = 201)

C6_Witness ==
    \E d \in Docs :
        /\ resp[d] = [code |-> 201, status |-> "processing"]
        /\ ppc[d] = "failed" /\ docs[d].status = "failed"

\* C7: an upload answered with an error after the blob upload or the first
\* Document save failed has started no run: no extraction call, no Transaction,
\* no Anomaly.
C7_FailedUploadStartsNoRun ==
    \A d \in Docs :
        resp[d].code = 500 =>
            /\ ppc[d] = "idle"
            /\ extractCalls[d] = 0
            /\ docs[d].status = "none"
            /\ TxOf(d) = {} /\ AnomOf(d) = {}

C7_Witness ==
    \E d \in Docs : resp[d].code = 500 /\ d \in blobs /\ mem[d].status = "processing"

\* C8: the severity of every Anomaly is high exactly when its risk score is
\* above 0.7, medium exactly when it is above 0.4 and at most 0.7, low exactly
\* when it is at most 0.4.
C8_SeverityLadder ==
    \A a \in anomalies :
        /\ a.severity = "high" <=> a.riskScore > 70
        /\ a.severity = "medium" <=> (a.riskScore > 40 /\ a.riskScore <= 70)
        /\ a.severity = "low" <=> a.riskScore <= 40

C8_Witness ==
    /\ \E a \in anomalies : a.riskScore = 70 /\ a.severity = "medium"

\* C9: a run whose scorer returned isAnomaly false, or no result, has created
\* no Anomaly, whatever the risk score.
C9_NegativeVerdictNoAnomaly ==
    \A d \in Docs :
        verdict[d].null \/ ~verdict[d].isAnomaly => AnomOf(d) = {}

C9_Witness ==
    \E d \in Docs :
        /\ ppc[d] = "done"
        /\ verdict[d] = [isAnomaly |-> FALSE, riskScore |-> 85, null |-> FALSE]
        /\ AnomOf(d) = {}

\* C10 (as stated): after a run has terminated, an Anomaly of the run's
\* Transaction exists if and only if the scorer returned a positive verdict.
C10_AnomalyIffPositive ==
    \A d \in Docs :
        Terminated(d) => (AnomOf(d) # {} <=> verdict[d].isAnomaly)

\* C10 (amended): after a run has terminated, an Anomaly of the run's
\* Transaction exists if and only if the scorer returned a positive verdict
\* and the save of the Anomaly did not fail.
C10_AnomalyIffPositiveAndSaved ==
    \A d \in Docs :
        Terminated(d) =>
            (AnomOf(d) # {} <=> verdict[d].isAnomaly /\ failedAt[d] # "saveAnom")

C10_Witness ==
    \E d \in Docs : ppc[d] = "done" /\ verdict[d].isAnomaly /\ AnomOf(d) # {}

\* C11: at most one Anomaly exists per Transaction of the pipeline, and no
\* Anomaly exists whose originating Document has status failed.
C11_OneAnomalyNeverOnFailed ==
    \A d \in Docs :
        /\ Cardinality(AnomOf(d)) <= 1
        /\ AnomOf(d) # {} => docs[d].status # "failed" /\ mem[d].status # "failed"

C11_Witness ==
    \E d \in Docs :
        Cardinality(AnomOf(d)) = 1 /\ docs[d].status = "processed" /\ ppc[d] = "done"

\* C12: a failed blob delete never ends the DELETE: deleteOne is still
\* called, and when it succeeds the record is gone and the answer is 200.
C12_BlobErrorDoesNotBlockDelete ==
    /\ [][\A d \in Docs :
            dpc[d] = "destroy" /\ dpc'[d] # "destroy" =>
                dpc'[d] = "deleteOne" /\ dresp'[d] = 0 /\ docs'[d] = docs[d]]_vars
    /\ [](\A d \in Docs :
            destroyErr[d] /\ dresp[d] = 200 => docs[d].status = "none")

C12_Witness ==
    \E d \in Docs :
        destroyErr[d] /\ d \in blobs /\ dresp[d] = 200 /\ docs[d].status = "none"

\* C13: a step that removes a Document record leaves the Transaction and the
\* Anomaly collections as they are; no step of the DELETE handler changes them.
C13_DeleteDoesNotCascade ==
    [][\A d \in Docs :
          (docs[d].status # "none" /\ docs'[d].status = "none") \/ dpc'[d] # dpc[d]
              => transactions' = transactions /\ anomalies' = anomalies]_vars

C13_Witness ==
    \E d \in Docs :
        dresp[d] = 200 /\ docs[d].status = "none" /\ TxOf(d) # {} /\ AnomOf(d) # {}

\* C14: the window passed to the scorer holds at most 100 Transactions, all
\* owned by the user of the Document.
C14_WindowBoundedAndScoped ==
    \A d \in Docs :
        /\ WindowSize(window[d]) <= 100
        /\ \A v \in Users : v # mem[d].user => window[d].manual[v] = 0
        /\ \A i \in 1..Len(window[d].created) :
              window[d].created[i].user = mem[d].user

C14_Witness ==
    \E d \in Docs :
        /\ ppc[d] = "score"
        /\ WindowSize(window[d]) = 100
        /\ manual[2] > 0 /\ mem[d].user = 1

\* C15: a run calls the extraction provider at most once, with gemini when
\* GEMINI_API_KEY is set and openai otherwise, also after the call has failed.
C15_OneCallFixedProvider ==
    \A d \in Docs :
        /\ extractCalls[d] <= 1
        /\ ppc[d] # "idle" =>
              /\ extractCalls[d] = 1
              /\ geminiKey => provider[d] = "gemini"
              /\ ~geminiKey => provider[d] = "openai"

C15_Witness ==
    \E d \in Docs :
        /\ geminiKey /\ provider[d] = "gemini"
        /\ failedAt[d] = "extract" /\ ppc[d] = "failed" /\ extractCalls[d] = 1

C16_StageOrder ==
    {<<"idle", "extract">>, <<"extract", "saveDoc">>, <<"saveDoc", "saveTx">>,
     <<"saveTx", "find">>, <<"find", "score">>, <<"score", "saveAnom">>,
     <<"score", "done">>, <<"saveAnom", "done">>,
     <<"saveFail", "failed">>, <<"saveFail", "rejected">>}
    \cup {<<st, "saveFail">> : st \in AwaitStages}

\* C16: a run moves through extraction, document update, transaction
\* creation, history fetch, scoring and anomaly persistence in this order,
\* each stage having its effect only in its own step, and once a stage has
\* failed the run only records the failure.
C16_StagesInOrder ==
    [][\A d \in Docs :
          /\ ppc'[d] # ppc[d] =>
                /\ <<ppc[d], ppc'[d]>> \in C16_StageOrder
                /\ failedAt[d] # "none" => ppc'[d] \in {"failed", "rejected"}
          /\ docs'[d].status = "processed" /\ docs[d].status # "processed"
                => ppc[d] = "saveDoc" /\ ppc'[d] = "saveTx"
          /\ TxOf(d)' # TxOf(d) => ppc[d] = "saveTx" /\ ppc'[d] = "find"
          /\ window'[d] # window[d] => ppc[d] = "find" /\ ppc'[d] = "score"
          /\ verdict'[d] # verdict[d] => ppc[d] = "score"
          /\ AnomOf(d)' # AnomOf(d) => ppc[d] = "saveAnom" /\ ppc'[d] = "done"]_vars

C16_Witness ==
    \E d \in Docs :
        /\ failedAt[d] = "find" /\ ppc[d] = "failed"
        /\ TxOf(d) # {} /\ window[d] = NoWindow /\ verdict[d] = NoResult

\* C17: when every awaited call returns, a started run eventually brings its
\* Document (unless it is deleted) to status processed or failed.
C17_RunReachesTerminalStatus ==
    \A d \in Docs :
        (ppc[d] = "extract") ~> (docs[d].status \in {"processed", "failed", "none"})

\* The 100 most recent Transactions of user u.
C18_MostRecent(man, txs, u) ==
    LET c == FilterUser(txs, u)
        k == Min(Len(c), HistoryLimit)
    IN  [manual |-> [v \in Users |-> IF v = u THEN Min(man[u], HistoryLimit - k) ELSE 0],
         created |-> SubSeq(c, Len(c) - k + 1, Len(c))]

\* C18: when the user has more than 100 Transactions at the history fetch,
\* the window passed to the scorer is the 100 most recent ones.
C18_WindowIsMostRecent ==
    [][\A d \in Docs :
          /\ ppc[d] = "find" /\ ppc'[d] = "score"
          /\ manual[mem[d].user] + Len(FilterUser(transactions, mem[d].user)) > 100
          => window'[d] = C18_MostRecent(manual, transactions, mem[d].user)]_vars

\* C19: when the user has fewer than 100 stored Transactions at the history
\* fetch, the window passed to the scorer holds the candidate Transaction and
\* so is not empty.
C19_SmallHistoryHoldsCandidate ==
    [][\A d \in Docs :
          /\ ppc[d] = "find" /\ ppc'[d] = "score"
          /\ manual[mem[d].user] + Len(FilterUser(transactions, mem[d].user)) < 100
          => /\ \E i \in 1..Len(window'[d].created) :
                   window'[d].created[i].id = TxId(d)
             /\ WindowSize(window'[d]) >= 1]_vars

C19_Witness ==
    \E d \in Docs :
        /\ ppc[d] = "score" /\ manual[mem[d].user] = 0
        /\ \E i \in 1..Len(window[d].created) : window[d].created[i].id = TxId(d)

\* C20: whenever a run persists its Transaction, the Document record the
\* Transaction references exists at that moment.
C20_TransactionReferencesLiveDocument ==
    \A d \in Docs : TxOf(d) # {} => docAtTxSave[d] # "none"

====
